---- MODULE Spec2Model ----
(***************************************************************************)
(* The two CSV ingestion scripts of src/utils:                             *)
(*   ingest_data_in_single_collection.py     (variant "single")            *)
(*   ingest_data_in_separate_collections.py  (variant "separate")          *)
(* main() of each script is modelled as a sequential state machine, one    *)
(* action per step of its control flow.  The external collaborators        *)
(* (pandas.read_csv, Chroma, the embedding provider) are the environment:  *)
(* a load either returns one document per row or raises, and one           *)
(* add_documents call either persists its whole batch or raises and        *)
(* persists nothing.  Constructing a Chroma handle either opens the        *)
(* collection, creating it when absent, or raises and opens nothing.       *)
(* The set-up steps before that (the API key check, the OpenAIEmbeddings   *)
(* constructor, mkdir) either pass or raise out of main.                   *)
(* A document is modelled by its source and row_index metadata; its text   *)
(* and its other metadata are left out.                                    *)
(*                                                                         *)
(* Strings that the code inspects character by character (file paths and   *)
(* collection names) are sequences of one-character strings.               *)
(***************************************************************************)
EXTENDS Integers, Sequences, FiniteSets, TLC

VARIABLES
    variant,          \* which script runs: "single" or "separate"
    pc,               \* position of main
    exc,              \* exception that left main ("none" while it has not)
    csv_files,        \* list(data_dir.glob("*.csv")), as file ids
    data,             \* the content of each file on disk
    idx,              \* position of the for loop over csv_files (1-based)
    file_path,        \* str(csv_file) of the file being processed
    collection_name,  \* local collection_name of main (separate variant)
    documents,        \* local documents
    all_documents,    \* local all_documents (single variant)
    total_batches,    \* local total_batches
    i,                \* loop variable of the batching loop
    vector_store,     \* local vector_store: the name of the opened collection
    store,            \* the persisted collections: name -> documents
    out,              \* the lines printed to standard output
    calls             \* the calls made to the external collaborators

vars == <<variant, pc, exc, csv_files, data, idx, file_path, collection_name,
          documents, all_documents, total_batches, i, vector_store, store,
          out, calls>>

(***************************************************************************)
(* Bounds of the model.                                                    *)
(***************************************************************************)
\* the longest file holds MaxFullBatches full batches and one row more
MaxFullBatches == 1
\* longest path given to get_collection_name on its own
MaxPathLen == 3

\* batch_size = 100
batch_size == 100

(***************************************************************************)
(* Strings.                                                                *)
(***************************************************************************)
UpperCase == <<"A","B","C","D","E","F","G","H","I","J","K","L","M",
               "N","O","P","Q","R","S","T","U","V","W","X","Y","Z">>
LowerCase == <<"a","b","c","d","e","f","g","h","i","j","k","l","m",
               "n","o","p","q","r","s","t","u","v","w","x","y","z">>

IsUpper(c) == \E k \in 1..Len(UpperCase) : UpperCase[k] = c

\* str.lower() on one ASCII character
LowerChar(c) ==
    IF IsUpper(c)
    THEN LowerCase[CHOOSE k \in 1..Len(UpperCase) : UpperCase[k] = c]
    ELSE c

\* str.lower()
lower(s) == [k \in 1..Len(s) |-> LowerChar(s[k])]

\* str.replace(old, new) for one-character old and new
replace(s, old, new) == [k \in 1..Len(s) |-> IF s[k] = old THEN new ELSE s[k]]

\* str.rfind("."), 1-based; 0 when there is no dot
RFindDot(s) ==
    IF \E k \in 1..Len(s) : s[k] = "."
    THEN CHOOSE k \in 1..Len(s) :
            s[k] = "." /\ \A m \in (k + 1)..Len(s) : s[m] # "."
    ELSE 0

\* the components of a path: split on "/", empty and "." components dropped
RECURSIVE PathParts(_, _, _)
PathParts(s, k, cur) ==
    IF k > Len(s)
    THEN IF cur = <<>> \/ cur = <<".">> THEN <<>> ELSE <<cur>>
    ELSE IF s[k] = "/"
         THEN (IF cur = <<>> \/ cur = <<".">> THEN <<>> ELSE <<cur>>)
              \o PathParts(s, k + 1, <<>>)
         ELSE PathParts(s, k + 1, Append(cur, s[k]))

\* Path(p).name: the last component, "" when there is none
PathName(p) ==
    LET parts == PathParts(p, 1, <<>>)
    IN  IF parts = <<>> THEN <<>> ELSE parts[Len(parts)]

\* Path(p).stem: the name without its last suffix; a leading or a trailing
\* dot starts no suffix
PathStem(p) ==
    LET name == PathName(p)
        d    == RFindDot(name)
    IN  IF 1 < d /\ d < Len(name) THEN SubSeq(name, 1, d - 1) ELSE name

\* get_collection_name with the second replace left out
get_collection_name_no_hyphen(p) ==
    lower(replace(PathStem(p), " ", "_"))

\* get_collection_name(file_path)
get_collection_name(p) ==
    lower(replace(replace(PathStem(p), " ", "_"), "-", "_"))

(***************************************************************************)
(* Files, documents and the vector store.                                  *)
(***************************************************************************)
\* the files that data_dir.glob("*.csv") can find, by id; two of them
\* normalise to the same collection name
FilePaths == <<
    <<"d","/","M","y"," ","F","i","l","e","-","1",".","c","s","v">>,
    <<"d","/","m","y","_","f","i","l","e","_","1",".","c","s","v">>,
    <<"d","/","a",".","c","s","v">> >>

FileIds == 1..Len(FilePaths)

\* the lists glob can return: the files present, each once, in any order
FileLists ==
    {fl \in UNION {[1..n -> FileIds] : n \in 0..Len(FilePaths)} :
        \A a, b \in 1..Len(fl) : a # b => fl[a] # fl[b]}

\* the numbers of rows a file can have: none, 2 (less than a batch), one
\* full batch, or full batches and one row more
RowCounts ==
    {0, 2, batch_size}
        \cup {q * batch_size + 1 : q \in 1..MaxFullBatches}

\* what pandas.read_csv finds in a file: a parse error, or rows; reserved
\* says that the file has columns named "source" and "row_index" (such a
\* file has 3 rows)
FileContents ==
    {[parseable |-> FALSE, nrows |-> 0, reserved |-> FALSE]}
        \cup {[parseable |-> TRUE, nrows |-> n, reserved |-> FALSE] :
                 n \in RowCounts}
        \cup {[parseable |-> TRUE, nrows |-> 3, reserved |-> TRUE]}

NoFile == [parseable |-> FALSE, nrows |-> 0, reserved |-> FALSE]

InList(fl, f) == \E k \in 1..Len(fl) : fl[k] = f

\* the contents of the files of a list; a file that is not there has none
DataChoices(fl) ==
    {d \in [FileIds -> FileContents] :
        \A f \in FileIds : ~InList(fl, f) => d[f] = NoFile}

\* the values that every row of a file with reserved column names has in
\* its columns "source" and "row_index": the name of the first file, and 7
ColumnValues == [source |-> 1, row_index |-> 7]

\* load_csv_as_documents(file_path) when read_csv succeeds: one Document per
\* row, in row order; its metadata are seeded with the source file and the
\* row index and then overlaid with the row's columns, which replace them
\* when the file has columns of those names
load_csv_as_documents(f) ==
    [k \in 1..data[f].nrows |->
        LET metadata == [source |-> f, row_index |-> k - 1]
        IN  IF data[f].reserved
            THEN [metadata EXCEPT !.source = ColumnValues.source,
                                  !.row_index = ColumnValues.row_index]
            ELSE metadata]

\* collection_name="techmart_data"
techmart_data == <<"t","e","c","h","m","a","r","t","_","d","a","t","a">>

\* Chroma(collection_name=name, ...): opens the collection, creating it
\* empty when absent and keeping its documents otherwise
Chroma(st, name) ==
    IF name \in DOMAIN st THEN st ELSE st @@ (name :> <<>>)

\* vector_store.add_documents(batch) when it succeeds
add_documents(st, name, batch) ==
    [st EXCEPT ![name] = @ \o batch]

Min(a, b) == IF a < b THEN a ELSE b

\* documents[i:i+batch_size-1], one short
Slice_short(docs, from) ==
    SubSeq(docs, from + 1, Min(from + batch_size - 1, Len(docs)))

\* documents[i:], the upper end of the slice forgotten
Slice_rest(docs, from) ==
    SubSeq(docs, from + 1, Len(docs))

\* documents[i:i+batch_size]
Slice(docs, from) ==
    SubSeq(docs, from + 1, Min(from + batch_size, Len(docs)))

\* len(documents) // batch_size + (1 if len(documents) % batch_size else 0)
TotalBatches(docs) ==
    (Len(docs) \div batch_size)
        + (IF Len(docs) % batch_size # 0 THEN 1 ELSE 0)

\* the next value of range(0, len(documents), batch_size)
Step(from) == from + batch_size

(***************************************************************************)
(* Printed lines and calls to the collaborators.                           *)
(***************************************************************************)
Line(kind, f, name, n) == [kind |-> kind, file |-> f, name |-> name, n |-> n]

Call(op, f, name, from, ok, batch) ==
    [op |-> op, file |-> f, name |-> name, i |-> from, ok |-> ok,
     batch |-> batch]

\* the "Collections created:" listing: one line per discovered file
SummaryLines ==
    [k \in 1..Len(csv_files) |->
        Line("created", csv_files[k],
             get_collection_name(FilePaths[csv_files[k]]), 0)]

(***************************************************************************)
(* main(), both variants.                                                  *)
(***************************************************************************)
Init ==
    /\ variant \in {"single", "separate"}
    /\ pc = "start"
    /\ exc = "none"
    /\ csv_files = <<>>
    /\ data = [f \in FileIds |-> NoFile]
    /\ idx = 0
    /\ file_path = <<>>
    /\ collection_name = <<>>
    /\ documents = <<>>
    /\ all_documents = <<>>
    /\ total_batches = 0
    /\ i = 0
    /\ vector_store = <<>>
    /\ store = <<>>
    /\ out = <<>>
    /\ calls = <<>>

\* the OPENAI_API_KEY check
CheckKey ==
    /\ pc = "start"
    /\ \E key \in BOOLEAN :
        IF key
        THEN /\ pc' = "embeddings"
             /\ exc' = exc
        ELSE /\ pc' = "raised"
             /\ exc' = "ValueError"
    /\ UNCHANGED <<variant, csv_files, data, idx, file_path, collection_name,
                   documents, all_documents, total_batches, i, vector_store,
                   store, out, calls>>

\* embeddings = OpenAIEmbeddings(...): outside any try block, so an
\* exception of the constructor leaves main
InitEmbeddings ==
    /\ pc = "embeddings"
    /\ \E ok \in BOOLEAN :
        IF ok
        THEN /\ pc' = "mkdir"
             /\ exc' = exc
        ELSE /\ pc' = "raised"
             /\ exc' = "EmbeddingsError"
    /\ UNCHANGED <<variant, csv_files, data, idx, file_path, collection_name,
                   documents, all_documents, total_batches, i, vector_store,
                   store, out, calls>>

\* chroma_db_path.mkdir(parents=True, exist_ok=True): outside any try block,
\* so an OSError (a regular file in the way, no permission) leaves main
MakeDir ==
    /\ pc = "mkdir"
    /\ \E ok \in BOOLEAN :
        IF ok
        THEN /\ pc' = IF variant = "single" THEN "open" ELSE "discover"
             /\ exc' = exc
        ELSE /\ pc' = "raised"
             /\ exc' = "OSError"
    /\ UNCHANGED <<variant, csv_files, data, idx, file_path, collection_name,
                   documents, all_documents, total_batches, i, vector_store,
                   store, out, calls>>

----
\* separate variant

SepDiscover ==
    /\ pc = "discover" /\ variant = "separate"
    /\ \E fl \in FileLists : \E d \in DataChoices(fl) :
        /\ csv_files' = fl
        /\ data' = d
        /\ IF fl = <<>>
           THEN /\ out' = Append(out, Line("no_csv_files", 0, <<>>, 0))
                /\ pc' = "done"
                /\ idx' = idx
           ELSE /\ out' = Append(out, Line("found", 0, <<>>, Len(fl)))
                /\ pc' = "file"
                /\ idx' = 1
    /\ UNCHANGED <<variant, exc, file_path, collection_name, documents,
                   all_documents, total_batches, i, vector_store, store,
                   calls>>

\* top of the for loop body: the collection name is derived from the file name
SepBeginFile ==
    /\ pc = "file" /\ variant = "separate"
    /\ idx <= Len(csv_files)
    /\ LET p == FilePaths[csv_files[idx]]
       IN  /\ file_path' = p
           /\ collection_name' = get_collection_name(p)
           /\ out' = Append(out, Line("processing", csv_files[idx],
                                      get_collection_name(p), 0))
    /\ pc' = "load"
    /\ UNCHANGED <<variant, exc, csv_files, data, idx, documents,
                   all_documents, total_batches, i, vector_store, store,
                   calls>>

\* SepLoad with the load outside the try block
SepLoad_no_except ==
    /\ pc = "load" /\ variant = "separate"
    /\ LET f == csv_files[idx]
       IN  /\ calls' = Append(calls, Call("load", f, <<>>, 0,
                                          data[f].parseable, <<>>))
           /\ IF ~data[f].parseable
              THEN /\ pc' = "raised"
                   /\ exc' = "Exception"
                   /\ UNCHANGED <<out, documents, idx>>
              ELSE /\ documents' = load_csv_as_documents(f)
                   /\ exc' = exc
                   /\ IF load_csv_as_documents(f) = <<>>
                      THEN /\ out' = Append(out, Line("no_documents", f, <<>>, 0))
                           /\ idx' = idx + 1
                           /\ pc' = "file"
                      ELSE /\ out' = out
                           /\ idx' = idx
                           /\ pc' = "route"
    /\ UNCHANGED <<variant, csv_files, data, file_path, collection_name,
                   all_documents, total_batches, i, vector_store, store>>

\* SepLoad without the "if not documents: continue"
SepLoad_no_skip ==
    /\ pc = "load" /\ variant = "separate"
    /\ LET f == csv_files[idx]
       IN  /\ calls' = Append(calls, Call("load", f, <<>>, 0,
                                          data[f].parseable, <<>>))
           /\ IF ~data[f].parseable
              THEN /\ out' = Append(out, Line("error", f, <<>>, 0))
                   /\ documents' = documents
                   /\ idx' = idx + 1
                   /\ pc' = "file"
              ELSE /\ documents' = load_csv_as_documents(f)
                   /\ out' = out
                   /\ idx' = idx
                   /\ pc' = "route"
    /\ UNCHANGED <<variant, exc, csv_files, data, file_path, collection_name,
                   all_documents, total_batches, i, vector_store, store>>

SepLoad ==
    /\ pc = "load" /\ variant = "separate"
    /\ LET f == csv_files[idx]
       IN  /\ calls' = Append(calls, Call("load", f, <<>>, 0,
                                          data[f].parseable, <<>>))
           /\ IF ~data[f].parseable
              THEN \* read_csv raises: except Exception
                   /\ out' = Append(out, Line("error", f, <<>>, 0))
                   /\ documents' = documents
                   /\ idx' = idx + 1
                   /\ pc' = "file"
              ELSE /\ documents' = load_csv_as_documents(f)
                   /\ IF load_csv_as_documents(f) = <<>>
                      THEN \* if not documents: continue
                           /\ out' = Append(out, Line("no_documents", f, <<>>, 0))
                           /\ idx' = idx + 1
                           /\ pc' = "file"
                      ELSE /\ out' = out
                           /\ idx' = idx
                           /\ pc' = "route"
    /\ UNCHANGED <<variant, exc, csv_files, data, file_path, collection_name,
                   all_documents, total_batches, i, vector_store, store>>

\* SepOpen opening the collection under the raw stem of the file name
SepOpen_raw_name ==
    /\ pc = "route" /\ variant = "separate"
    /\ \E ok \in BOOLEAN :
        /\ calls' = Append(calls, Call("open", csv_files[idx],
                                       PathStem(file_path), 0, ok, <<>>))
        /\ IF ok
           THEN /\ vector_store' = PathStem(file_path)
                /\ store' = Chroma(store, PathStem(file_path))
                /\ total_batches' = TotalBatches(documents)
                /\ out' = Append(out, Line("ingesting", csv_files[idx],
                                           collection_name, Len(documents)))
                /\ i' = 0
                /\ idx' = idx
                /\ pc' = "submit"
           ELSE /\ out' = Append(out, Line("error", csv_files[idx], <<>>, 0))
                /\ idx' = idx + 1
                /\ pc' = "file"
                /\ UNCHANGED <<vector_store, store, total_batches, i>>
    /\ UNCHANGED <<variant, exc, csv_files, data, file_path,
                   collection_name, documents, all_documents>>

\* vector_store = Chroma(collection_name=collection_name, ...) and the set-up
\* of the batching loop; the constructor is inside the try block
SepOpen ==
    /\ pc = "route" /\ variant = "separate"
    /\ \E ok \in BOOLEAN :
        /\ calls' = Append(calls, Call("open", csv_files[idx],
                                       collection_name, 0, ok, <<>>))
        /\ IF ok
           THEN /\ vector_store' = collection_name
                /\ store' = Chroma(store, collection_name)
                /\ total_batches' = TotalBatches(documents)
                /\ out' = Append(out, Line("ingesting", csv_files[idx],
                                           collection_name, Len(documents)))
                /\ i' = 0
                /\ idx' = idx
                /\ pc' = "submit"
           ELSE \* Chroma raises: except Exception
                /\ out' = Append(out, Line("error", csv_files[idx], <<>>, 0))
                /\ idx' = idx + 1
                /\ pc' = "file"
                /\ UNCHANGED <<vector_store, store, total_batches, i>>
    /\ UNCHANGED <<variant, exc, csv_files, data, file_path,
                   collection_name, documents, all_documents>>

\* SepAddBatch with the batching loop outside the try block
SepAddBatch_no_except ==
    /\ pc = "submit" /\ variant = "separate"
    /\ i < Len(documents)
    /\ LET batch == Slice(documents, i)
       IN  \E ok \in BOOLEAN :
            /\ calls' = Append(calls, Call("add", csv_files[idx],
                                           vector_store, i, ok, batch))
            /\ IF ok
               THEN /\ store' = add_documents(store, vector_store, batch)
                    /\ i' = Step(i)
                    /\ UNCHANGED <<out, idx, pc, exc>>
               ELSE /\ pc' = "raised"
                    /\ exc' = "Exception"
                    /\ UNCHANGED <<out, idx, store, i>>
    /\ UNCHANGED <<variant, csv_files, data, file_path, collection_name,
                   documents, all_documents, total_batches, vector_store>>

SepAddBatch ==
    /\ pc = "submit" /\ variant = "separate"
    /\ i < Len(documents)
    /\ LET batch == Slice(documents, i)
       IN  \E ok \in BOOLEAN :
            /\ calls' = Append(calls, Call("add", csv_files[idx],
                                           vector_store, i, ok, batch))
            /\ IF ok
               THEN /\ store' = add_documents(store, vector_store, batch)
                    /\ i' = Step(i)
                    /\ UNCHANGED <<out, idx, pc>>
               ELSE \* add_documents raises: except Exception
                    /\ out' = Append(out, Line("error", csv_files[idx], <<>>, 0))
                    /\ idx' = idx + 1
                    /\ pc' = "file"
                    /\ UNCHANGED <<store, i>>
    /\ UNCHANGED <<variant, exc, csv_files, data, file_path, collection_name,
                   documents, all_documents, total_batches, vector_store>>

\* the batching loop is exhausted
SepSubmitDone ==
    /\ pc = "submit" /\ variant = "separate"
    /\ i >= Len(documents)
    /\ out' = Append(out, Line("success", csv_files[idx], collection_name,
                               Len(documents)))
    /\ idx' = idx + 1
    /\ pc' = "file"
    /\ UNCHANGED <<variant, exc, csv_files, data, file_path, collection_name,
                   documents, all_documents, total_batches, i, vector_store,
                   store, calls>>

\* after the for loop: "All collections persisted to:", "Collections
\* created:" and one line per csv file
SepSummary ==
    /\ pc = "file" /\ variant = "separate"
    /\ idx > Len(csv_files)
    /\ out' = out \o <<Line("persisted_to", 0, <<>>, 0),
                        Line("collections_created", 0, <<>>, 0)>>
                  \o SummaryLines
    /\ pc' = "done"
    /\ UNCHANGED <<variant, exc, csv_files, data, idx, file_path,
                   collection_name, documents, all_documents, total_batches,
                   i, vector_store, store, calls>>

----
\* single variant

\* vector_store = Chroma(collection_name="techmart_data", ...), before the
\* files are looked for and outside any try block
SingleOpen ==
    /\ pc = "open" /\ variant = "single"
    /\ \E ok \in BOOLEAN :
        /\ calls' = Append(calls, Call("open", 0, techmart_data, 0, ok, <<>>))
        /\ IF ok
           THEN /\ vector_store' = techmart_data
                /\ store' = Chroma(store, techmart_data)
                /\ pc' = "discover"
                /\ exc' = exc
           ELSE \* Chroma raises: the exception leaves main
                /\ pc' = "raised"
                /\ exc' = "Exception"
                /\ UNCHANGED <<vector_store, store>>
    /\ UNCHANGED <<variant, csv_files, data, idx, file_path,
                   collection_name, documents, all_documents, total_batches,
                   i, out>>

SingleDiscover ==
    /\ pc = "discover" /\ variant = "single"
    /\ \E fl \in FileLists : \E d \in DataChoices(fl) :
        /\ csv_files' = fl
        /\ data' = d
        /\ IF fl = <<>>
           THEN /\ out' = Append(out, Line("no_csv_files", 0, <<>>, 0))
                /\ pc' = "done"
                /\ idx' = idx
           ELSE /\ out' = Append(out, Line("found", 0, <<>>, Len(fl)))
                /\ pc' = "load"
                /\ idx' = 1
    /\ all_documents' = <<>>
    /\ UNCHANGED <<variant, exc, file_path, collection_name, documents,
                   total_batches, i, vector_store, store, calls>>

\* one iteration of the for loop over csv_files
\* SingleLoad with all_documents assigned instead of extended
SingleLoad_overwrite ==
    /\ pc = "load" /\ variant = "single"
    /\ idx <= Len(csv_files)
    /\ LET f == csv_files[idx]
       IN  /\ file_path' = FilePaths[f]
           /\ calls' = Append(calls, Call("load", f, <<>>, 0,
                                          data[f].parseable, <<>>))
           /\ IF ~data[f].parseable
              THEN /\ out' = Append(out, Line("error", f, <<>>, 0))
                   /\ UNCHANGED <<documents, all_documents>>
              ELSE /\ documents' = load_csv_as_documents(f)
                   /\ all_documents' = load_csv_as_documents(f)
                   /\ out' = Append(out, Line("loaded", f, <<>>,
                                              Len(load_csv_as_documents(f))))
    /\ idx' = idx + 1
    /\ UNCHANGED <<variant, pc, exc, csv_files, data, collection_name,
                   total_batches, i, vector_store, store>>

SingleLoad ==
    /\ pc = "load" /\ variant = "single"
    /\ idx <= Len(csv_files)
    /\ LET f == csv_files[idx]
       IN  /\ file_path' = FilePaths[f]
           /\ calls' = Append(calls, Call("load", f, <<>>, 0,
                                          data[f].parseable, <<>>))
           /\ IF ~data[f].parseable
              THEN \* read_csv raises: except Exception
                   /\ out' = Append(out, Line("error", f, <<>>, 0))
                   /\ UNCHANGED <<documents, all_documents>>
              ELSE /\ documents' = load_csv_as_documents(f)
                   /\ all_documents' = all_documents \o load_csv_as_documents(f)
                   /\ out' = Append(out, Line("loaded", f, <<>>,
                                              Len(load_csv_as_documents(f))))
    /\ idx' = idx + 1
    /\ UNCHANGED <<variant, pc, exc, csv_files, data, collection_name,
                   total_batches, i, vector_store, store>>

\* after the for loop: nothing to ingest, or the batching loop is set up
SingleLoadDone ==
    /\ pc = "load" /\ variant = "single"
    /\ idx > Len(csv_files)
    /\ IF all_documents = <<>>
       THEN /\ out' = Append(out, Line("no_documents", 0, <<>>, 0))
            /\ pc' = "done"
            /\ UNCHANGED <<total_batches, i>>
       ELSE /\ out' = Append(out, Line("ingesting", 0, <<>>,
                                       Len(all_documents)))
            /\ total_batches' = TotalBatches(all_documents)
            /\ i' = 0
            /\ pc' = "submit"
    /\ UNCHANGED <<variant, exc, csv_files, data, idx, file_path,
                   collection_name, documents, all_documents, vector_store,
                   store, calls>>

\* SingleAddBatch with the failure caught inside the loop, which goes on
SingleAddBatch_swallow ==
    /\ pc = "submit" /\ variant = "single"
    /\ i < Len(all_documents)
    /\ LET batch == Slice(all_documents, i)
       IN  \E ok \in BOOLEAN :
            /\ calls' = Append(calls, Call("add", 0, vector_store, i, ok,
                                           batch))
            /\ IF ok
               THEN /\ store' = add_documents(store, vector_store, batch)
                    /\ UNCHANGED out
               ELSE /\ out' = Append(out, Line("error_ingesting", 0, <<>>, 0))
                    /\ UNCHANGED store
            /\ i' = Step(i)
    /\ UNCHANGED <<variant, pc, exc, csv_files, data, idx, file_path,
                   collection_name, documents, all_documents, total_batches,
                   vector_store>>

SingleAddBatch ==
    /\ pc = "submit" /\ variant = "single"
    /\ i < Len(all_documents)
    /\ LET batch == Slice(all_documents, i)
       IN  \E ok \in BOOLEAN :
            /\ calls' = Append(calls, Call("add", 0, vector_store, i, ok,
                                           batch))
            /\ IF ok
               THEN /\ store' = add_documents(store, vector_store, batch)
                    /\ i' = Step(i)
                    /\ UNCHANGED <<out, pc, exc>>
               ELSE \* except Exception: print and raise
                    /\ out' = Append(out, Line("error_ingesting", 0, <<>>, 0))
                    /\ pc' = "raised"
                    /\ exc' = "Exception"
                    /\ UNCHANGED <<store, i>>
    /\ UNCHANGED <<variant, csv_files, data, idx, file_path, collection_name,
                   documents, all_documents, total_batches, vector_store>>

\* the batching loop is exhausted
SingleSubmitDone ==
    /\ pc = "submit" /\ variant = "single"
    /\ i >= Len(all_documents)
    /\ out' = out \o <<Line("success", 0, <<>>, Len(all_documents)),
                        Line("persisted_to", 0, <<>>, 0)>>
    /\ pc' = "done"
    /\ UNCHANGED <<variant, exc, csv_files, data, idx, file_path,
                   collection_name, documents, all_documents, total_batches,
                   i, vector_store, store, calls>>

----
Next ==
    \/ CheckKey
    \/ InitEmbeddings
    \/ MakeDir
    \/ SepDiscover
    \/ SepBeginFile
    \/ SepLoad
    \/ SepOpen
    \/ SepAddBatch
    \/ SepSubmitDone
    \/ SepSummary
    \/ SingleOpen
    \/ SingleDiscover
    \/ SingleLoad
    \/ SingleLoadDone
    \/ SingleAddBatch
    \/ SingleSubmitDone

Spec == Init /\ [][Next]_vars

(***************************************************************************)
(* get_collection_name on its own, on every short path over an alphabet    *)
(* that holds each kind of character the function treats differently, and  *)
(* on the paths of FilePaths.                                              *)
(***************************************************************************)
PathAlphabet == {"A", "b", " ", "-", ".", "/"}

PathInputs ==
    UNION {[1..n -> PathAlphabet] : n \in 0..MaxPathLen}
        \cup {FilePaths[f] : f \in FileIds}

NameInit ==
    /\ variant = "separate"
    /\ pc = "name_call"
    /\ exc = "none"
    /\ csv_files = <<>>
    /\ data = [f \in FileIds |-> NoFile]
    /\ idx = 0
    /\ file_path \in PathInputs
    /\ collection_name = <<>>
    /\ documents = <<>>
    /\ all_documents = <<>>
    /\ total_batches = 0
    /\ i = 0
    /\ vector_store = <<>>
    /\ store = <<>>
    /\ out = <<>>
    /\ calls = <<>>

NameCall ==
    /\ pc = "name_call"
    /\ collection_name' = get_collection_name(file_path)
    /\ pc' = "name_return"
    /\ UNCHANGED <<variant, exc, csv_files, data, idx, file_path, documents,
                   all_documents, total_batches, i, vector_store, store, out,
                   calls>>

NameNext == NameCall

NameSpec == NameInit /\ [][NameNext]_vars

(***************************************************************************)
(* Vocabulary of the properties.                                           *)
(***************************************************************************)
CallIdx == 1..Len(calls)

IsAdd(k) == calls[k].op = "add"

IsFailedAdd(k) == calls[k].op = "add" /\ ~calls[k].ok

NoSubmitFailure == \A k \in CallIdx : ~IsFailedAdd(k)

IsOpen(k) == calls[k].op = "open"

NoOpenFailure == \A k \in CallIdx : IsOpen(k) => calls[k].ok

\* no call to the vector store fails
NoStoreFailure == NoSubmitFailure /\ NoOpenFailure

\* data_dir.glob has run: its result is the first thing main prints
Discovered == out # <<>>

NoLoadFailure == \A k \in 1..Len(csv_files) : data[csv_files[k]].parseable

\* two add calls submit batches of the same document sequence: the same
\* file's documents (separate), all_documents (single, where file is 0)
SameSequence(j, k) == IsAdd(j) /\ IsAdd(k) /\ calls[j].file = calls[k].file

PosOf(f) == CHOOSE m \in 1..Len(csv_files) : csv_files[m] = f

\* the collection name of each file
CollectionNames == [f \in FileIds |-> get_collection_name(FilePaths[f])]

NameOf(f) == CollectionNames[f]

\* the collection the documents of file f are routed to
Target(f) == IF variant = "single" THEN techmart_data ELSE NameOf(f)

\* the number of documents in the batches that the first k calls added to
\* collection name
RECURSIVE AddedTo(_, _)
AddedTo(k, name) ==
    IF k = 0 THEN 0
    ELSE AddedTo(k - 1, name)
           + (IF IsAdd(k) /\ calls[k].ok /\ calls[k].name = name
              THEN Len(calls[k].batch) ELSE 0)

\* the number of documents in the batches of file f that the first k calls
\* added (separate variant)
RECURSIVE AddedFrom(_, _)
AddedFrom(k, f) ==
    IF k = 0 THEN 0
    ELSE AddedFrom(k - 1, f)
           + (IF IsAdd(k) /\ calls[k].ok /\ calls[k].file = f
              THEN Len(calls[k].batch) ELSE 0)

\* the number of documents that the files before position m added to the
\* collection of the file at position m (separate variant)
RECURSIVE AddedBefore(_, _)
AddedBefore(k, m) ==
    IF k = 0 THEN 0
    ELSE AddedBefore(k - 1, m)
           + (IF IsAdd(k) /\ calls[k].ok
                 /\ NameOf(calls[k].file) = NameOf(csv_files[m])
                 /\ PosOf(calls[k].file) < m
              THEN Len(calls[k].batch) ELSE 0)

\* the number of documents loaded from the files before position m
RECURSIVE LoadedBefore(_)
LoadedBefore(m) ==
    IF m <= 1 THEN 0
    ELSE LoadedBefore(m - 1)
           + (IF data[csv_files[m - 1]].parseable
              THEN data[csv_files[m - 1]].nrows ELSE 0)

Stored(name) == IF name \in DOMAIN store THEN store[name] ELSE <<>>

\* the part of the store that holds the documents of file f: in its
\* collection, after the documents that came before them, by position (two
\* documents may be equal)
Persisted(f) ==
    LET all   == Stored(Target(f))
        m     == PosOf(f)
        start == IF variant = "single" THEN LoadedBefore(m)
                 ELSE AddedBefore(Len(calls), m)
        n     == IF variant = "single" THEN data[f].nrows
                 ELSE AddedFrom(Len(calls), f)
    IN  SubSeq(all, Min(start, Len(all)) + 1, Min(start + n, Len(all)))

ErrorCount(f) ==
    Cardinality({k \in 1..Len(out) : out[k].kind = "error" /\ out[k].file = f})

HasLine(kind, f) ==
    \E k \in 1..Len(out) : out[k].kind = kind /\ out[k].file = f

IsPrefix(s, t) == Len(s) <= Len(t) /\ s = SubSeq(t, 1, Len(s))

RECURSIVE SumRows(_)
SumRows(k) ==
    IF k = 0 THEN 0 ELSE data[csv_files[k]].nrows + SumRows(k - 1)

\* ceil(L / B), stated without the code's arithmetic
Ceil(L, B) == CHOOSE n \in 0..L : n * B >= L /\ (n = 0 \/ (n - 1) * B < L)

RECURSIVE Concat(_)
Concat(ss) == IF ss = <<>> THEN <<>> ELSE Head(ss) \o Concat(Tail(ss))

\* the document sequence the batching loop is working on
CurrentSequence == IF variant = "single" THEN all_documents ELSE documents

CurrentFile == IF variant = "single" THEN 0 ELSE csv_files[idx]

\* the batches submitted so far from the current sequence, in call order
CurrentBatches ==
    LET ks == SelectSeq([k \in CallIdx |-> k],
                        LAMBDA k : IsAdd(k) /\ calls[k].file = CurrentFile)
    IN  [m \in 1..Len(ks) |-> calls[ks[m]].batch]

(***************************************************************************)
(* C1 (as amended): a failing add_documents call is caught per file only   *)
(* in the separate variant: there the error is printed for the file, main  *)
(* does not raise, and every later file is still loaded and, when it has   *)
(* documents and its collection opens, submitted.  In the single variant   *)
(* all files have been loaded before the first submission, and a failing   *)
(* add_documents is printed and re-raised out of main.                     *)
(***************************************************************************)
C1_SubmitFailureHandling ==
    \A k \in CallIdx : IsFailedAdd(k) =>
        IF variant = "separate"
        THEN /\ exc = "none" /\ pc # "raised"
             /\ HasLine("error", calls[k].file)
             /\ pc = "done" =>
                  \A m \in (PosOf(calls[k].file) + 1)..Len(csv_files) :
                     LET g == csv_files[m]
                     IN  /\ \E j \in CallIdx :
                              j > k /\ calls[j].op = "load" /\ calls[j].file = g
                         /\ (data[g].parseable /\ data[g].nrows > 0) =>
                              \E j \in CallIdx :
                                 /\ j > k /\ IsOpen(j) /\ calls[j].file = g
                                 /\ calls[j].ok =>
                                      /\ j < Len(calls)
                                      /\ IsAdd(j + 1)
                                      /\ calls[j + 1].file = g
                                      /\ calls[j + 1].i = 0
        ELSE /\ exc = "Exception" /\ pc = "raised"
             /\ HasLine("error_ingesting", 0)
             /\ \A m \in 1..Len(csv_files) :
                  \E j \in CallIdx :
                     j < k /\ calls[j].op = "load" /\ calls[j].file = csv_files[m]

\* a finished separate run in which the first file's submission failed and a
\* later file was ingested
C1_Witness ==
    /\ variant = "separate" /\ pc = "done" /\ Len(csv_files) >= 2
    /\ \E k \in CallIdx : IsFailedAdd(k) /\ calls[k].file = csv_files[1]
    /\ HasLine("success", csv_files[2])

\* C1 as stated: in both variants a failed submission is recorded, the
\* remaining files are processed and the error does not leave main
C1_AsStated ==
    \A k \in CallIdx : IsFailedAdd(k) =>
        /\ exc = "none" /\ pc # "raised"
        /\ \E n \in 1..Len(out) : out[n].kind \in {"error", "error_ingesting"}

(***************************************************************************)
(* C2: once the files have been discovered and as long as no call to the   *)
(* vector store fails, main does not raise whatever files are              *)
(* unparseable; at the end exactly one error line is                       *)
(* printed for each unparseable file, none for a parseable one, and the    *)
(* documents of every parseable file are in the store, complete and in     *)
(* row order.                                                              *)
(***************************************************************************)
C2_LoadFailureIsolation ==
    (NoStoreFailure /\ Discovered) =>
        /\ exc = "none" /\ pc # "raised"
        /\ pc = "done" =>
             \A m \in 1..Len(csv_files) :
                LET f == csv_files[m]
                IN  /\ ErrorCount(f) = IF data[f].parseable THEN 0 ELSE 1
                    /\ data[f].parseable =>
                         Persisted(f) = load_csv_as_documents(f)

\* three files, the second unparseable, the other two ingested
C2_Witness ==
    /\ pc = "done" /\ Len(csv_files) = 3 /\ NoStoreFailure
    /\ ~data[csv_files[2]].parseable
    /\ data[csv_files[1]].parseable /\ data[csv_files[1]].nrows > 0
    /\ data[csv_files[3]].parseable /\ data[csv_files[3]].nrows > 0
    /\ ErrorCount(csv_files[2]) = 1
    /\ Persisted(csv_files[1]) = load_csv_as_documents(csv_files[1])
    /\ Persisted(csv_files[3]) = load_csv_as_documents(csv_files[3])

(***************************************************************************)
(* C3: while the batching loop runs, the batches submitted so far are all  *)
(* of length batch_size and concatenate to the first i documents; when the *)
(* loop is exhausted there are ceil(L / batch_size) = total_batches of     *)
(* them, all but the last of length batch_size, the last of length         *)
(* 1..batch_size, and they concatenate to the whole sequence.  A file with *)
(* no rows (L = 0) gets no batch.                                          *)
(***************************************************************************)
C3_BatchPartition ==
    /\ pc = "submit" =>
        LET docs == CurrentSequence
            bs   == CurrentBatches
            L    == Len(docs)
        IN  IF NoSubmitFailure /\ i >= L
            THEN /\ Len(bs) = Ceil(L, batch_size)
                 /\ Len(bs) = total_batches
                 /\ \A m \in 1..(Len(bs) - 1) : Len(bs[m]) = batch_size
                 /\ Len(bs) > 0 =>
                      Len(bs[Len(bs)]) \in 1..batch_size
                 /\ Concat(bs) = docs
            ELSE NoSubmitFailure =>
                 /\ \A m \in 1..Len(bs) : Len(bs[m]) = batch_size
                 /\ Concat(bs) = SubSeq(docs, 1, i)
    /\ \A m \in 1..Len(csv_files) :
         (data[csv_files[m]].parseable /\ data[csv_files[m]].nrows = 0
            /\ variant = "separate") =>
              ~\E k \in CallIdx : IsAdd(k) /\ calls[k].file = csv_files[m]

\* a loop that has submitted a full batch followed by a shorter last one
C3_Witness ==
    /\ pc = "submit" /\ NoSubmitFailure
    /\ i >= Len(CurrentSequence)
    /\ Len(CurrentBatches) = 2
    /\ Len(CurrentBatches[2]) < batch_size

(***************************************************************************)
(* C4: on a run without any failure, from an empty store: the single       *)
(* variant ends with techmart_data as the only collection, holding as many *)
(* documents as the files have rows in total; the separate variant, when   *)
(* the files' collection names are pairwise distinct, ends with a          *)
(* collection get_collection_name(f) of exactly N documents for each file  *)
(* f of N >= 1 rows.                                                       *)
(***************************************************************************)
DistinctNames ==
    \A a, b \in 1..Len(csv_files) :
        a # b => NameOf(csv_files[a]) # NameOf(csv_files[b])

C4_EndToEndCounts ==
    (pc = "done" /\ NoStoreFailure /\ NoLoadFailure) =>
        IF variant = "single"
        THEN /\ DOMAIN store = {techmart_data}
             /\ Len(store[techmart_data]) = SumRows(Len(csv_files))
        ELSE DistinctNames =>
             \A m \in 1..Len(csv_files) :
                LET f == csv_files[m]
                IN  data[f].nrows >= 1 =>
                      /\ NameOf(f) \in DOMAIN store
                      /\ Len(store[NameOf(f)]) = data[f].nrows

\* two files of distinct names, with 2 and 3 rows, ingested into two
\* collections of 2 and 3 documents (separate) or one of 5 (single)
C4_Witness ==
    /\ pc = "done" /\ NoStoreFailure /\ NoLoadFailure
    /\ Len(csv_files) = 2 /\ DistinctNames
    /\ data[csv_files[1]].nrows = 2
    /\ data[csv_files[2]].nrows = 3
    /\ IF variant = "single"
       THEN Len(store[techmart_data]) = 5
       ELSE /\ Len(store[NameOf(csv_files[1])]) = 2
            /\ Len(store[NameOf(csv_files[2])]) = 3

(***************************************************************************)
(* C5 (as amended): in the single variant exactly one collection,          *)
(* techmart_data, is opened in every run that reaches the Chroma           *)
(* constructor and in which it returns, and it is opened before the        *)
(* files are looked for.  In the separate variant, after all files         *)
(* have been processed, there has been one open call for each file that    *)
(* loaded at least one document and none for any other file, and the       *)
(* collections opened are exactly the get_collection_name(f) of the files  *)
(* f whose open call returned: an empty or unparseable file gets no        *)
(* collection, and files whose names normalise to the same name share one. *)
(***************************************************************************)
OpenCalls == {k \in CallIdx : calls[k].op = "open"}

YieldsDocuments(f) == data[f].parseable /\ data[f].nrows >= 1

C5_CollectionCardinality ==
    IF variant = "single"
    THEN IF \E k \in OpenCalls : calls[k].ok
         THEN /\ DOMAIN store = {techmart_data}
              /\ Cardinality(OpenCalls) = 1
         ELSE /\ DOMAIN store = {}
              /\ pc \in {"start", "embeddings", "mkdir", "open", "raised"}
    ELSE pc = "done" =>
         /\ \A m \in 1..Len(csv_files) :
              Cardinality({k \in OpenCalls : calls[k].file = csv_files[m]})
                 = IF YieldsDocuments(csv_files[m]) THEN 1 ELSE 0
         /\ DOMAIN store =
              {NameOf(calls[k].file) : k \in {j \in OpenCalls : calls[j].ok}}
         /\ Cardinality(DOMAIN store) <= Len(csv_files)

\* three files that all yield documents, two of them sharing a collection
C5_Witness ==
    /\ variant = "separate" /\ pc = "done" /\ Len(csv_files) = 3
    /\ \A m \in 1..3 : YieldsDocuments(csv_files[m])
    /\ Cardinality(DOMAIN store) = 2
    /\ Cardinality(OpenCalls) = 3

\* C5 as stated: one collection in the single variant; in the separate
\* variant the collections correspond one to one to the discovered files
C5_AsStated ==
    pc = "done" =>
        IF variant = "single"
        THEN Cardinality(DOMAIN store) = 1
        ELSE /\ DOMAIN store = {NameOf(csv_files[m]) : m \in 1..Len(csv_files)}
             /\ Cardinality(DOMAIN store) = Len(csv_files)

(***************************************************************************)
(* C6: get_collection_name returns the stem of the path with each space    *)
(* and each hyphen turned into an underscore and each letter lower-cased,  *)
(* character by character; the result holds no space, hyphen, upper-case   *)
(* letter or directory separator, and "My File-1.csv" gives "my_file_1".   *)
(***************************************************************************)
NormalisedChar(c) ==
    IF c = " " \/ c = "-" THEN "_"
    ELSE IF IsUpper(c) THEN LowerCase[CHOOSE k \in 1..26 : UpperCase[k] = c]
    ELSE c

my_file_1 == <<"m","y","_","f","i","l","e","_","1">>

C6_CollectionName ==
    pc = "name_return" =>
        LET stem == PathStem(file_path)
        IN  /\ Len(collection_name) = Len(stem)
            /\ \A k \in 1..Len(stem) :
                 collection_name[k] = NormalisedChar(stem[k])
            /\ \A k \in 1..Len(collection_name) :
                 /\ collection_name[k] \notin {" ", "-", "/"}
                 /\ ~IsUpper(collection_name[k])
            /\ file_path = FilePaths[1] => collection_name = my_file_1

C6_Witness ==
    /\ pc = "name_return"
    /\ file_path = FilePaths[1]
    /\ collection_name = my_file_1

(***************************************************************************)
(* C7: every file that the final listing of the separate variant reports   *)
(* as a created collection was ingested successfully.                      *)
(***************************************************************************)
C7_SummaryOnlySuccesses ==
    pc = "done" =>
        \A n \in 1..Len(out) :
            out[n].kind = "created" => HasLine("success", out[n].file)

(***************************************************************************)
(* C8 (as amended): in the separate variant the name of a file's           *)
(* collection is derived before the file is loaded, but the collection is  *)
(* opened only right after a load of the file that returned at least one   *)
(* document, and a batch is submitted only after that open returned; a     *)
(* file that is unparseable or empty gets no open and no add call.  In the *)
(* single variant the collection is opened first, before the files are     *)
(* looked for and whether or not any file yields a document, and batches   *)
(* are submitted only after every file has been loaded.                    *)
(***************************************************************************)
C8_StepOrdering ==
    IF variant = "separate"
    THEN /\ \A k \in CallIdx :
              /\ calls[k].op = "open" =>
                   /\ k > 1
                   /\ calls[k - 1].op = "load" /\ calls[k - 1].ok
                   /\ calls[k - 1].file = calls[k].file
                   /\ data[calls[k].file].nrows >= 1
                   /\ calls[k].name = NameOf(calls[k].file)
              /\ IsAdd(k) =>
                   \E j \in 1..(k - 1) :
                      /\ calls[j].op = "open" /\ calls[j].file = calls[k].file
                      /\ calls[j].name = calls[k].name
                      /\ calls[j].ok
              /\ (calls[k].op = "load" /\ ~YieldsDocuments(calls[k].file)) =>
                   ~\E j \in CallIdx :
                      calls[j].op \in {"open", "add"}
                         /\ calls[j].file = calls[k].file
         /\ pc = "load" =>
              /\ collection_name = NameOf(csv_files[idx])
              /\ ~\E j \in CallIdx : calls[j].file = csv_files[idx]
    ELSE /\ calls # <<>> => calls[1].op = "open"
         /\ Cardinality(OpenCalls) <= 1
         /\ pc = "discover" => (csv_files = <<>> /\ Len(calls) = 1)
         /\ \A k \in CallIdx : IsAdd(k) =>
              /\ calls[1].ok
              /\ \A j \in CallIdx : calls[j].op = "load" => j < k
              /\ \A m \in 1..Len(csv_files) :
                   \E j \in 1..(k - 1) :
                      calls[j].op = "load" /\ calls[j].file = csv_files[m]

\* a finished separate run: an empty file got no collection, the next file
\* was loaded, routed and submitted
C8_Witness ==
    /\ variant = "separate" /\ pc = "done" /\ Len(csv_files) = 2
    /\ data[csv_files[1]].parseable /\ data[csv_files[1]].nrows = 0
    /\ HasLine("success", csv_files[2])
    /\ Cardinality(OpenCalls) = 1

\* C8 as stated: a collection is opened only after a load that yielded a
\* document, and a batch is submitted only after its collection is opened
C8_AsStated ==
    \A k \in CallIdx :
        /\ calls[k].op = "open" =>
             \E j \in 1..(k - 1) :
                calls[j].op = "load" /\ calls[j].ok
                   /\ data[calls[j].file].nrows >= 1
        /\ IsAdd(k) =>
             \E j \in 1..(k - 1) : calls[j].op = "open"

(***************************************************************************)
(* C9: the batches of one document sequence are submitted in increasing    *)
(* order, the first at offset 0 and each next one batch_size further,      *)
(* only after the previous call succeeded; after a failed call no batch of *)
(* the sequence is submitted again and the batching loop has been left.    *)
(***************************************************************************)
C9_InOrderAbortOnFailure ==
    /\ \A k \in CallIdx : IsAdd(k) =>
         LET prev == {j \in 1..(k - 1) : SameSequence(j, k)}
         IN  /\ IF prev = {}
                THEN calls[k].i = 0
                ELSE LET j == CHOOSE x \in prev : \A y \in prev : y <= x
                     IN  /\ calls[j].ok
                         /\ calls[k].i = calls[j].i + batch_size
             /\ ~calls[k].ok =>
                  ~\E j \in (k + 1)..Len(calls) : SameSequence(j, k)
    /\ (calls # <<>> /\ IsFailedAdd(Len(calls))) => pc # "submit"

\* the second of at least three batches failed and the run is over
C9_Witness ==
    /\ pc \in {"done", "raised"}
    /\ \E k \in CallIdx :
         /\ IsFailedAdd(k) /\ calls[k].i = batch_size
         /\ (IF variant = "single"
             THEN Len(all_documents)
             ELSE data[calls[k].file].nrows) > 2 * batch_size

(***************************************************************************)
(* C10: at every moment the stored documents of one document sequence are  *)
(* a prefix of it, of a length that is a multiple of batch_size or the     *)
(* whole length; after the n-th batch of a sequence failed, exactly the    *)
(* first (n - 1) * batch_size documents of the sequence are stored.        *)
(***************************************************************************)
BatchNumber(k) == Cardinality({j \in 1..k : SameSequence(j, k)})

PrefixOf(p, full, f) ==
    /\ IsPrefix(p, full)
    /\ (Len(p) % batch_size = 0 \/ Len(p) = Len(full))
    /\ \A k \in CallIdx : (IsFailedAdd(k) /\ calls[k].file = f) =>
         Len(p) = (BatchNumber(k) - 1) * batch_size

C10_PrefixInvariant ==
    /\ \A name \in DOMAIN store :
         Len(store[name]) = AddedTo(Len(calls), name)
    /\ IF variant = "single"
       THEN PrefixOf(Stored(techmart_data), all_documents, 0)
       ELSE \A m \in 1..Len(csv_files) :
               PrefixOf(Persisted(csv_files[m]),
                        load_csv_as_documents(csv_files[m]), csv_files[m])

\* the second batch of a file failed and its first batch is still stored
C10_Witness ==
    /\ variant = "separate" /\ pc = "done"
    /\ \E k \in CallIdx :
         /\ IsFailedAdd(k) /\ calls[k].i = batch_size
         /\ Len(Persisted(calls[k].file)) = batch_size

====
